---------------------------- MODULE Spec2Model ----------------------------
(***************************************************************************)
(* Model of the palimpsest issue synchroniser (src/sync_items.py).         *)
(*                                                                         *)
(* Strings are sequences of one-character strings, so that strip, find,    *)
(* split and the identifier patterns are computed character by character.  *)
(* Python's None is the one-element sequence <<"None">>, whose element is   *)
(* no character: it differs from every string of the model, the empty one  *)
(* included.                                                               *)
(***************************************************************************)
EXTENDS Integers, Sequences, FiniteSets, TLC

VARIABLES
    \* ---- one run of main() and the tracker it talks to
    arg,            \* sys.argv[1].lower()
    do_prune,       \* "--prune" in sys.argv[2:]
    config,         \* the parsed YAML document
    flat_items,     \* load_flat_items(CONFIG_PATH)
    remote,         \* the tracker's issues, in listing order
    sub_issues,     \* the tracker's sub-issue relationships
    calls,          \* the mutating HTTP requests issued by this run, in order
    log,            \* the lines printed by this run, in order
    pc,             \* position of main()
    kinds_left,     \* kinds still to be synced by the loop of main()
    existing_map,   \* sync_kind's existing_map (insertion ordered dict)
    idx,            \* cursor of the loop that pc names
    all_issues,     \* sync_sub_issue_links' all_issues
    run,            \* 1 in the first invocation of the script, 2 in the one after it
    faults,         \* error responses the tracker has given to create, update,
                    \* close and link calls
    \* ---- title round trip of one work item
    rt_pc, rt_item, rt_title, rt_id,
    \* ---- the label policy applied to one issue
    cl_pc, cl_current, cl_kind, cl_priority, cl_id, cl_result, cl_prev, cl_log

run_vars == <<arg, do_prune, config, flat_items, remote, sub_issues, calls, log,
              pc, kinds_left, existing_map, idx, all_issues, run, faults>>
rt_vars == <<rt_pc, rt_item, rt_title, rt_id>>
cl_vars == <<cl_pc, cl_current, cl_kind, cl_priority, cl_id, cl_result, cl_prev, cl_log>>
vars == <<run_vars, rt_vars, cl_vars>>

-----------------------------------------------------------------------------
(* Python values and string methods *)

None == <<"None">>

\* truthiness of an optional string: None and "" are falsy
Falsy(x) == x = None \/ x = <<>>

\* a or b
Or(a, b) == IF Falsy(a) THEN b ELSE a

IsSpace(c) == c \in {" ", "\t", "\n"}

IsDigit(c) == c \in {"0", "1", "2", "3", "4", "5", "6", "7", "8", "9"}

RECURSIVE lstrip(_)
lstrip(s) == IF s # <<>> /\ IsSpace(Head(s)) THEN lstrip(Tail(s)) ELSE s

RECURSIVE rstrip(_)
rstrip(s) == IF s # <<>> /\ IsSpace(s[Len(s)]) THEN rstrip(SubSeq(s, 1, Len(s) - 1)) ELSE s

\* str.strip()
strip(s) == rstrip(lstrip(s))

\* str.find(c): the 0-based index of the first c, or -1
find(s, c) ==
    IF \E i \in 1..Len(s) : s[i] = c
    THEN (CHOOSE i \in 1..Len(s) : s[i] = c /\ \A j \in 1..(i - 1) : s[j] # c) - 1
    ELSE -1

\* str.startswith(p)
startswith(s, p) == Len(s) >= Len(p) /\ SubSeq(s, 1, Len(p)) = p

\* str.split(c)
RECURSIVE split(_, _)
split(s, c) ==
    LET k == find(s, c)
    IN  IF k = -1 THEN <<s>>
        ELSE <<SubSeq(s, 1, k)>> \o split(SubSeq(s, k + 2, Len(s)), c)

\* x in list
In(x, l) == \E i \in 1..Len(l) : l[i] = x

\* set(list)
SetOf(l) == {l[i] : i \in 1..Len(l)}

\* "sep".join(parts) for parts that are themselves sequences
RECURSIVE join(_, _)
join(sep, parts) ==
    IF parts = <<>> THEN <<>>
    ELSE IF Len(parts) = 1 THEN parts[1]
    ELSE parts[1] \o sep \o join(sep, Tail(parts))

-----------------------------------------------------------------------------
(* Configuration constants *)

BASE_ID_PREFIX == <<"P", "A", "L", "I">>

P0 == <<"P", "0">>
P1 == <<"P", "1">>
P2 == <<"P", "2">>

PRIORITY_LABELS == {P0, P1, P2}

Kinds == <<"epic", "story", "task", "subtask">>

\* \d+
Digits(s) == s # <<>> /\ \A i \in 1..Len(s) : IsDigit(s[i])

\* <letters>\d+ , the shape of one identifier segment
Segment(letters, s) == startswith(s, letters) /\ Digits(SubSeq(s, Len(letters) + 1, Len(s)))

SegE(s) == Segment(<<"E">>, s)
SegS(s) == Segment(<<"S">>, s)
SegT(s) == Segment(<<"T">>, s)
SegST(s) == Segment(<<"S", "T">>, s)

\* KIND_CONFIG[kind]["id_regex"].match(s). No segment holds a "-", so a string
\* matches ^PALI-E\d+-S\d+...$ exactly when its "-"-separated parts are PALI
\* followed by one part of each segment shape. (No string of the model ends
\* with a line break, the one thing Python's $ would let pass.)
id_regex(kind, s) ==
    LET p == split(s, "-")
    IN  /\ Len(p) >= 2 /\ p[1] = BASE_ID_PREFIX /\ SegE(p[2])
        /\ CASE kind = "epic"    -> Len(p) = 2
             [] kind = "story"   -> Len(p) = 3 /\ SegS(p[3])
             [] kind = "task"    -> Len(p) = 4 /\ SegS(p[3]) /\ SegT(p[4])
             [] kind = "subtask" -> Len(p) = 5 /\ SegS(p[3]) /\ SegT(p[4]) /\ SegST(p[5])

\* KIND_CONFIG[kind]["label"]
kind_label(kind) ==
    CASE kind = "epic"    -> <<"E", "p", "i", "c", "s">>
      [] kind = "story"   -> <<"S", "t", "o", "r", "i", "e", "s">>
      [] kind = "task"    -> <<"T", "a", "s", "k", "s">>
      [] kind = "subtask" -> <<"S", "u", "b", "-", "t", "a", "s", "k", "s">>


-----------------------------------------------------------------------------
(* Load and flatten the YAML document *)

Item(id, kind, phase, priority, title, description, epic_id, story_id, task_id) ==
    [id |-> id, kind |-> kind, phase |-> phase, priority |-> priority,
     title |-> title, description |-> description,
     epic_id |-> epic_id, story_id |-> story_id, task_id |-> task_id]

\* the loop over task["subtasks"]: the subtask's phase and priority fall back
\* to the task's resolved ones
RECURSIVE FlatSubtasks(_, _, _, _, _, _)
FlatSubtasks(subs, epic_id, story_id, task_id, task_phase, task_priority) ==
    IF subs = <<>> THEN <<>>
    ELSE LET sub == Head(subs)
             sub_id == strip(sub.id)
             sub_phase == strip(Or(sub.phase, task_phase))
             sub_priority == strip(Or(sub.priority, task_priority))
         IN  <<Item(sub_id, "subtask", sub_phase, sub_priority, strip(sub.title),
                    strip(Or(sub.description, <<>>)), epic_id, story_id, task_id)>>
             \o FlatSubtasks(Tail(subs), epic_id, story_id, task_id, task_phase, task_priority)

\* the loop over story["tasks"]
RECURSIVE FlatTasks(_, _, _, _, _)
\* the loop over story["tasks"] handing the story's phase and priority, not the
\* task's, down to the subtasks
FlatTasks_story(tasks, epic_id, story_id, story_phase, story_priority) ==
    IF tasks = <<>> THEN <<>>
    ELSE LET task == Head(tasks)
             task_id == strip(task.id)
             task_phase == strip(Or(task.phase, story_phase))
             task_priority == strip(Or(task.priority, story_priority))
         IN  <<Item(task_id, "task", task_phase, task_priority, strip(task.title),
                    strip(Or(task.description, <<>>)), epic_id, story_id, None)>>
             \o FlatSubtasks(task.subtasks, epic_id, story_id, task_id, story_phase, story_priority)
             \o FlatTasks(Tail(tasks), epic_id, story_id, story_phase, story_priority)

FlatTasks(tasks, epic_id, story_id, story_phase, story_priority) ==
    IF tasks = <<>> THEN <<>>
    ELSE LET task == Head(tasks)
             task_id == strip(task.id)
             task_phase == strip(Or(task.phase, story_phase))
             task_priority == strip(Or(task.priority, story_priority))
         IN  <<Item(task_id, "task", task_phase, task_priority, strip(task.title),
                    strip(Or(task.description, <<>>)), epic_id, story_id, None)>>
             \o FlatSubtasks(task.subtasks, epic_id, story_id, task_id, task_phase, task_priority)
             \o FlatTasks(Tail(tasks), epic_id, story_id, story_phase, story_priority)

\* the loop over epic["stories"]
RECURSIVE FlatStories(_, _, _, _)
FlatStories(stories, epic_id, epic_phase, epic_priority) ==
    IF stories = <<>> THEN <<>>
    ELSE LET story == Head(stories)
             story_id == strip(story.id)
             story_phase == strip(Or(story.phase, epic_phase))
             story_priority == strip(Or(story.priority, epic_priority))
         IN  <<Item(story_id, "story", story_phase, story_priority, strip(story.title),
                    strip(Or(story.description, <<>>)), epic_id, None, None)>>
             \o FlatTasks(story.tasks, epic_id, story_id, story_phase, story_priority)
             \o FlatStories(Tail(stories), epic_id, epic_phase, epic_priority)

\* the loop over data["epics"]
RECURSIVE FlatEpics(_)
FlatEpics(epics) ==
    IF epics = <<>> THEN <<>>
    ELSE LET epic == Head(epics)
             epic_id == strip(epic.id)
             epic_phase == strip(epic.phase)
             epic_priority == strip(epic.priority)
         IN  <<Item(epic_id, "epic", epic_phase, epic_priority, strip(epic.title),
                    strip(Or(epic.description, <<>>)), None, None, None)>>
             \o FlatStories(epic.stories, epic_id, epic_phase, epic_priority)
             \o FlatEpics(Tail(epics))

load_flat_items(data) == FlatEpics(data.epics)

-----------------------------------------------------------------------------
(* Title and body *)

desired_title(item) == <<"[">> \o item.id \o <<"]", " ">> \o item.title

kind_word(kind) ==
    CASE kind = "epic"    -> <<"E", "p", "i", "c">>
      [] kind = "story"   -> <<"S", "t", "o", "r", "y">>
      [] kind = "task"    -> <<"T", "a", "s", "k">>
      [] kind = "subtask" -> <<"S", "u", "b", "-", "t", "a", "s", "k">>

\* CONFIG_PATH
CONFIG_PATH == <<"config/pali_items.yaml">>

\* the body is the lines joined by "\n"; a fixed piece of text of the template
\* is one element of the sequence (the backquotes around the path are written
\* < and >, the dash of the heading -)
desired_body(item, config_path) ==
    LET desc_block == IF item.description # <<>> THEN item.description
                      ELSE <<"TODO: add a clear goal / description for this item.">>
        head == << <<"# ">> \o item.id \o <<" - ">> \o item.title,
                   <<>>,
                   <<"**ID:** ">> \o item.id \o <<"  ">>,
                   <<"**Kind:** ">> \o kind_word(item.kind) \o <<"  ">>,
                   <<"**Phase:** ">> \o item.phase \o <<"  ">>,
                   <<"**Priority:** ">> \o item.priority \o <<"  ">> >>
        epic_line == IF ~Falsy(item.epic_id)
                     THEN << <<"**Epic:** ">> \o item.epic_id \o <<"  ">> >> ELSE <<>>
        story_line == IF ~Falsy(item.story_id)
                      THEN << <<"**Story:** ">> \o item.story_id \o <<"  ">> >> ELSE <<>>
        task_line == IF ~Falsy(item.task_id)
                     THEN << <<"**Task:** ">> \o item.task_id \o <<"  ">> >> ELSE <<>>
        foot == << <<>>,
                   <<"**Goal / Description**  ">>,
                   desc_block,
                   <<>>,
                   <<"---">>,
                   <<>>,
                   <<"This issue is fully managed by <">> \o config_path \o <<">.">>,
                   <<"Edit YAML, then rerun the sync script.">> >>
    IN  join(<<"\n">>, head \o epic_line \o story_line \o task_line \o foot)

-----------------------------------------------------------------------------
(* Identifier of an issue title *)

extract_id_from_title(title0) ==
    LET title == strip(title0)
        closing == find(title, "]")
        first_token == split(title, " ")[1]
    IN  IF startswith(title, <<"[">>) /\ closing # -1
        THEN strip(SubSeq(title, 2, closing))
        ELSE IF startswith(first_token, BASE_ID_PREFIX) THEN first_token ELSE None

-----------------------------------------------------------------------------
(* Labels *)

\* the optional groups of ID_SEGMENTS_RE after (E\d+): each part is matched
\* by the first of the remaining shapes S\d+, T\d+, ST\d+ that fits it
RECURSIVE MatchOptional(_, _)
MatchOptional(parts, shapes) ==
    IF parts = <<>> THEN TRUE
    ELSE IF shapes = <<>> THEN FALSE
    ELSE IF Segment(Head(shapes), Head(parts))
         THEN MatchOptional(Tail(parts), Tail(shapes))
         ELSE MatchOptional(parts, Tail(shapes))

\* ID_SEGMENTS_RE.match(item_id)
ID_SEGMENTS_RE(item_id) ==
    LET p == split(item_id, "-")
    IN  /\ Len(p) >= 2 /\ p[1] = BASE_ID_PREFIX /\ SegE(p[2])
        /\ MatchOptional(SubSeq(p, 3, Len(p)), << <<"S">>, <<"T">>, <<"S", "T">> >>)

extract_id_segment_labels(item_id) ==
    IF ~ID_SEGMENTS_RE(item_id) THEN <<>>
    ELSE LET p == split(item_id, "-") IN SubSeq(p, 2, Len(p))

\* for seg in segs: if seg not in new_labels: new_labels.append(seg)
RECURSIVE AppendMissing(_, _)
AppendMissing(new_labels, segs) ==
    IF segs = <<>> THEN new_labels
    ELSE AppendMissing(IF In(Head(segs), new_labels) THEN new_labels
                       ELSE Append(new_labels, Head(segs)),
                       Tail(segs))

\* compute_labels starting from an empty list instead of list(current_labels)
compute_labels_fresh(current_labels, item_label, priority, item_id) ==
    LET with_segs == AppendMissing(<<item_label>>, extract_id_segment_labels(item_id))
        no_prio == SelectSeq(with_segs, LAMBDA l : l \notin PRIORITY_LABELS)
    IN  IF priority \in PRIORITY_LABELS /\ ~In(priority, no_prio)
        THEN Append(no_prio, priority)
        ELSE no_prio

\* compute_labels adding the current priority first and then removing the
\* priority labels the issue had
compute_labels_stale(current_labels, item_label, priority, item_id) ==
    LET with_base == IF In(item_label, current_labels) THEN current_labels
                     ELSE Append(current_labels, item_label)
        with_segs == AppendMissing(with_base, extract_id_segment_labels(item_id))
        with_prio == IF priority \in PRIORITY_LABELS /\ ~In(priority, with_segs)
                     THEN Append(with_segs, priority)
                     ELSE with_segs
    IN  SelectSeq(with_prio, LAMBDA l : ~(l \in PRIORITY_LABELS /\ In(l, current_labels)))

\* compute_labels without the removal of the old priority labels
compute_labels_keep(current_labels, item_label, priority, item_id) ==
    LET with_base == IF In(item_label, current_labels) THEN current_labels
                     ELSE Append(current_labels, item_label)
        with_segs == AppendMissing(with_base, extract_id_segment_labels(item_id))
    IN  IF priority \in PRIORITY_LABELS /\ ~In(priority, with_segs)
        THEN Append(with_segs, priority)
        ELSE with_segs

compute_labels(current_labels, item_label, priority, item_id) ==
    LET with_base == IF In(item_label, current_labels) THEN current_labels
                     ELSE Append(current_labels, item_label)
        with_segs == AppendMissing(with_base, extract_id_segment_labels(item_id))
        no_prio == SelectSeq(with_segs, LAMBDA l : l \notin PRIORITY_LABELS)
    IN  IF priority \in PRIORITY_LABELS /\ ~In(priority, no_prio)
        THEN Append(no_prio, priority)
        ELSE no_prio

\* the lines compute_labels prints
compute_labels_log(priority) ==
    IF priority \notin PRIORITY_LABELS
    THEN << [tag |-> "WARN", what |-> priority] >>
    ELSE <<>>


-----------------------------------------------------------------------------
(* Strings of the examples *)

Id_E(n) == BASE_ID_PREFIX \o <<"-", "E", n>>
Id_S(n, m) == Id_E(n) \o <<"-", "S", m>>
Id_T(n, m, k) == Id_S(n, m) \o <<"-", "T", k>>
Id_ST(n, m, k, j) == Id_T(n, m, k) \o <<"-", "S", "T", j>>

bug == <<"b", "u", "g">>
E1 == <<"E", "1">>

-----------------------------------------------------------------------------
(* The label policy applied to the labels of one issue, and applied again to *)
(* its own result                                                            *)

\* longest list of current labels
MaxLabels == 2

LabelPool == {P0, P2, bug, kind_label("epic"), E1}

PriorityPool == {P0, P1, <<"h", "i", "g", "h">>}

LabelIdPool == {Id_E("1"), Id_S("1", "2"), Id_ST("1", "2", "3", "4"),
                Id_E("1") \o <<"-", "T", "3">>, <<"X">>}

SeqsUpTo(S, n) == UNION {[1..k -> S] : k \in 0..n}

RunIdle ==
    /\ arg = "all" /\ do_prune = FALSE /\ config = [epics |-> <<>>]
    /\ flat_items = <<>> /\ remote = <<>> /\ sub_issues = {}
    /\ calls = <<>> /\ log = <<>> /\ pc = "idle" /\ kinds_left = <<>>
    /\ existing_map = <<>> /\ idx = 0 /\ all_issues = <<>> /\ run = 0 /\ faults = 0

RtIdle == rt_pc = "idle" /\ rt_item = 0 /\ rt_title = <<>> /\ rt_id = None

ClIdle ==
    /\ cl_pc = "idle" /\ cl_current = <<>> /\ cl_kind = "epic" /\ cl_priority = <<>>
    /\ cl_id = <<>> /\ cl_result = <<>> /\ cl_prev = <<>> /\ cl_log = <<>>

InitLabels ==
    /\ RunIdle /\ RtIdle
    /\ cl_pc = "input"
    /\ cl_current \in SeqsUpTo(LabelPool, MaxLabels)
    /\ cl_kind \in SetOf(Kinds)
    /\ cl_priority \in PriorityPool
    /\ cl_id \in LabelIdPool
    /\ cl_result = <<>> /\ cl_prev = <<>> /\ cl_log = <<>>

\* new_labels = compute_labels(current_labels, item_label, priority, id)
Compute ==
    /\ cl_pc = "input"
    /\ cl_result' = compute_labels(cl_current, kind_label(cl_kind), cl_priority, cl_id)
    /\ cl_log' = cl_log \o compute_labels_log(cl_priority)
    /\ cl_pc' = "once"
    /\ UNCHANGED <<cl_current, cl_kind, cl_priority, cl_id, cl_prev>>
    /\ UNCHANGED <<run_vars, rt_vars>>

\* the labels it returned are the issue's current labels of the next call
Recompute ==
    /\ cl_pc = "once"
    /\ cl_prev' = cl_result
    /\ cl_result' = compute_labels(cl_result, kind_label(cl_kind), cl_priority, cl_id)
    /\ cl_log' = cl_log \o compute_labels_log(cl_priority)
    /\ cl_pc' = "twice"
    /\ UNCHANGED <<cl_current, cl_kind, cl_priority, cl_id>>
    /\ UNCHANGED <<run_vars, rt_vars>>

NextLabels == Compute \/ Recompute

SpecLabels == InitLabels /\ [][NextLabels]_vars

\* the list compute_labels was last applied to
cl_input == IF cl_pc = "twice" THEN cl_prev ELSE cl_current

\* C6: every current label outside PRIORITY_LABELS is in the result of
\* compute_labels.
C6_NoLabelLoss ==
    cl_pc \in {"once", "twice"} =>
        \A l \in SetOf(cl_input) : l \notin PRIORITY_LABELS => In(l, cl_result)

\* a result that kept an ungoverned label and dropped a priority label
C6_Witness ==
    /\ cl_pc = "once"
    /\ In(bug, cl_current) /\ In(P2, cl_current)
    /\ In(bug, cl_result) /\ ~In(P2, cl_result)

\* C7: compute_labels applied to its own result, with the same kind label,
\* priority and identifier, returns the same set of labels.
C7_Idempotent ==
    cl_pc = "twice" => SetOf(cl_result) = SetOf(cl_prev)

\* a second application to a result that differs from the labels of the issue
C7_Witness ==
    /\ cl_pc = "twice"
    /\ SetOf(cl_prev) # SetOf(cl_current)
    /\ In(P2, cl_current) /\ In(P0, cl_prev) /\ In(P0, cl_result)

\* C8: the only label of PRIORITY_LABELS in the result is the item's priority;
\* it is there when the priority is one of PRIORITY_LABELS; a priority that is
\* not adds no label (it is in the result only as a current, kind or segment
\* label) and prints a warning, and no warning is printed otherwise.
C8_PriorityReplaced ==
    cl_pc = "once" =>
        /\ SetOf(cl_result) \cap PRIORITY_LABELS
              = IF cl_priority \in PRIORITY_LABELS THEN {cl_priority} ELSE {}
        /\ cl_priority \notin PRIORITY_LABELS /\ In(cl_priority, cl_result)
              => cl_priority \in SetOf(cl_current) \cup {kind_label(cl_kind)}
                                 \cup SetOf(extract_id_segment_labels(cl_id))
        /\ cl_priority \notin PRIORITY_LABELS
              <=> cl_log = << [tag |-> "WARN", what |-> cl_priority] >>
        /\ cl_priority \in PRIORITY_LABELS <=> cl_log = <<>>

\* the spec's scenario: PALI-E1-S2 labelled P2, priority now P0
C8_Witness ==
    /\ cl_pc = "once"
    /\ cl_id = Id_S("1", "2") /\ cl_kind = "story"
    /\ cl_current = <<bug, P2>> /\ cl_priority = P0
    /\ SetOf(cl_result) = {bug, kind_label("story"), E1, <<"S", "2">>, P0}

-----------------------------------------------------------------------------
(* The tracker's issue listing *)

\* params["per_page"]
PER_PAGE == 100

Min(a, b) == IF a < b THEN a ELSE b

\* the response to GET issues?state=all&per_page=100&page=<page>
IssuesPage(page) == SubSeq(remote, (page - 1) * PER_PAGE + 1, Min(page * PER_PAGE, Len(remote)))

\* dict: a sequence of [key, value] in insertion order
HasKey(d, k) == \E i \in 1..Len(d) : d[i].key = k
Get(d, k) == d[CHOOSE i \in 1..Len(d) : d[i].key = k].value
Keys(d) == {d[i].key : i \in 1..Len(d)}

\* the loop over one page of get_existing_items_map
RECURSIVE ScanKind(_, _, _)
ScanKind(existing, issues, kind) ==
    IF issues = <<>> THEN existing
    ELSE LET issue == Head(issues)
             item_id == extract_id_from_title(issue.title)
             keep == /\ ~issue.pull_request
                     /\ ~Falsy(item_id)
                     /\ id_regex(kind, item_id)
                     /\ ~HasKey(existing, item_id)
         IN  ScanKind(IF keep THEN Append(existing, [key |-> item_id, value |-> issue])
                      ELSE existing,
                      Tail(issues), kind)

\* the while loop of get_existing_items_map, from page on
RECURSIVE ListKindFrom(_, _, _)
ListKindFrom(existing, page, kind) ==
    IF IssuesPage(page) = <<>> THEN existing
    ELSE ListKindFrom(ScanKind(existing, IssuesPage(page), kind), page + 1, kind)

get_existing_items_map(kind) == ListKindFrom(<<>>, 1, kind)

\* the loop over one page of get_all_existing_items
RECURSIVE ScanAll(_, _)
ScanAll(existing, issues) ==
    IF issues = <<>> THEN existing
    ELSE LET issue == Head(issues)
             item_id == extract_id_from_title(issue.title)
             keep == /\ ~issue.pull_request
                     /\ ~Falsy(item_id)
                     /\ startswith(item_id, BASE_ID_PREFIX)
                     /\ ~HasKey(existing, item_id)
         IN  ScanAll(IF keep THEN Append(existing, [key |-> item_id, value |-> issue])
                     ELSE existing,
                     Tail(issues))

RECURSIVE ListAllFrom(_, _)
ListAllFrom(existing, page) ==
    IF IssuesPage(page) = <<>> THEN existing
    ELSE ListAllFrom(ScanAll(existing, IssuesPage(page)), page + 1)

get_all_existing_items == ListAllFrom(<<>>, 1)

-----------------------------------------------------------------------------
(* Requests, responses and the tracker's reaction *)

\* most error responses of the tracker to create, update, close and link calls
MaxFailures == 1

\* the status codes the tracker may answer a call with: ok, or a server error
Statuses(ok) == {ok} \cup (IF faults < MaxFailures THEN {500} ELSE {})

\* the tracker's count of its error responses after it answered with status
Answered(status) == IF status = 500 THEN faults + 1 ELSE faults

\* requests.post(ISSUES_URL, json=payload)
PostIssue(payload) ==
    [method |-> "POST", issue |-> 0, sub_issues |-> FALSE, json |-> payload]

\* requests.patch(f"{ISSUES_URL}/{number}", json=payload)
PatchIssue(number, payload) ==
    [method |-> "PATCH", issue |-> number, sub_issues |-> FALSE, json |-> payload]

\* requests.post(f"{ISSUES_URL}/{parent_issue_number}/sub_issues", json=payload)
PostSubIssue(parent_issue_number, payload) ==
    [method |-> "POST", issue |-> parent_issue_number, sub_issues |-> TRUE, json |-> payload]

\* the tracker numbers a new issue after the newest one
NewNumber == Len(remote) + 1

\* the tracker's id of the issue with a number (the two differ)
IssueId(number) == 100 + number

\* the tracker after a successful create: the listing returns the newest first
Created(payload) ==
    << [number |-> NewNumber, id |-> IssueId(NewNumber), title |-> payload.title,
        body |-> payload.body, labels |-> payload.labels, state |-> "open",
        pull_request |-> FALSE] >> \o remote

\* the tracker after a successful update of title, body and labels
Updated(number, payload) ==
    [i \in 1..Len(remote) |->
        IF remote[i].number = number
        THEN [remote[i] EXCEPT !.title = payload.title, !.body = payload.body,
                               !.labels = payload.labels]
        ELSE remote[i]]

\* the tracker after a successful close
Closed(number) ==
    [i \in 1..Len(remote) |->
        IF remote[i].number = number THEN [remote[i] EXCEPT !.state = "closed"]
        ELSE remote[i]]

-----------------------------------------------------------------------------
(* One run of main() *)

items_for_kind(kind) == SelectSeq(flat_items, LAMBDA it : it.kind = kind)

\* the payload of create_item with the title of the old form, "<id> <title>"
create_payload_old_title(item, item_label) ==
    [title |-> item.id \o <<" ">> \o item.title,
     body |-> desired_body(item, CONFIG_PATH),
     labels |-> compute_labels(<<>>, item_label, item.priority, item.id)]

\* the payload of create_item
create_payload(item, item_label) ==
    [title |-> desired_title(item),
     body |-> desired_body(item, CONFIG_PATH),
     labels |-> compute_labels(<<>>, item_label, item.priority, item.id)]

\* the payload of update_item
update_payload(issue, item, item_label) ==
    [title |-> desired_title(item),
     body |-> desired_body(item, CONFIG_PATH),
     labels |-> compute_labels(issue.labels, item_label, item.priority, item.id)]

\* needs_update of update_item without the comparison of the labels
needs_update_no_labels(issue, item, item_label) ==
    \/ issue.title # desired_title(item)
    \/ issue.body # desired_body(item, CONFIG_PATH)

\* needs_update of update_item
needs_update(issue, item, item_label) ==
    \/ issue.title # desired_title(item)
    \/ issue.body # desired_body(item, CONFIG_PATH)
    \/ SetOf(issue.labels) # SetOf(compute_labels(issue.labels, item_label, item.priority, item.id))

create_item(item, item_label) ==
    \E status \in Statuses(201) :
        LET payload == create_payload(item, item_label)
        IN  /\ calls' = Append(calls, PostIssue(payload))
            /\ faults' = Answered(status)
            /\ IF status = 201
               THEN /\ remote' = Created(payload)
                    /\ log' = log \o compute_labels_log(item.priority)
                                  \o << [tag |-> "CREATE", id |-> item.id, number |-> NewNumber] >>
               ELSE /\ remote' = remote
                    /\ log' = log \o compute_labels_log(item.priority)
                                  \o << [tag |-> "CREATE-FAILED", id |-> item.id, status |-> status] >>

update_item(issue, item, item_label) ==
    IF ~needs_update(issue, item, item_label)
    THEN /\ log' = log \o compute_labels_log(item.priority)
                       \o << [tag |-> "SKIP", id |-> item.id] >>
         /\ UNCHANGED <<calls, remote, faults>>
    ELSE \E status \in Statuses(200) :
            LET payload == update_payload(issue, item, item_label)
            IN  /\ calls' = Append(calls, PatchIssue(issue.number, payload))
                /\ faults' = Answered(status)
                /\ IF status = 200
                   THEN /\ remote' = Updated(issue.number, payload)
                        /\ log' = log \o compute_labels_log(item.priority)
                                      \o << [tag |-> "UPDATE", id |-> item.id,
                                             number |-> issue.number] >>
                   ELSE /\ remote' = remote
                        /\ log' = log \o compute_labels_log(item.priority)
                                      \o << [tag |-> "UPDATE-FAILED", id |-> item.id,
                                             status |-> status] >>

\* main() up to the first sync_kind: the arguments and the configuration
Main ==
    /\ pc = "main"
    /\ arg \in {"epic", "story", "task", "subtask", "all"}
    /\ flat_items' = load_flat_items(config)
    /\ kinds_left' = IF arg = "all" THEN Kinds ELSE <<arg>>
    /\ pc' = "sync_kind"
    /\ UNCHANGED <<arg, do_prune, config, remote, sub_issues, calls, log,
                   existing_map, idx, all_issues, run, faults>>
    /\ UNCHANGED <<rt_vars, cl_vars>>

\* raise SystemExit(f"Invalid kind ...")
Usage ==
    /\ pc = "main"
    /\ arg \notin {"epic", "story", "task", "subtask", "all"}
    /\ pc' = "exit"
    /\ UNCHANGED <<arg, do_prune, config, flat_items, remote, sub_issues, calls, log,
                   kinds_left, existing_map, idx, all_issues, run, faults>>
    /\ UNCHANGED <<rt_vars, cl_vars>>

\* the head of sync_kind: the kind-scoped directory is listed, or the listing
\* fails and the script exits
SyncKindList ==
    /\ pc = "sync_kind" /\ kinds_left # <<>>
    /\ \E status \in {200, 500} :
        IF status = 200
        THEN /\ existing_map' = get_existing_items_map(Head(kinds_left))
             /\ log' = log \o << [tag |-> "SYNC", kind |-> Head(kinds_left)],
                                 [tag |-> "EXISTING", kind |-> Head(kinds_left),
                                  ids |-> Keys(get_existing_items_map(Head(kinds_left)))] >>
             /\ idx' = 1
             /\ pc' = "items"
        ELSE /\ log' = Append(log, [tag |-> "SYNC", kind |-> Head(kinds_left)])
             /\ pc' = "exit"
             /\ UNCHANGED <<existing_map, idx>>
    /\ UNCHANGED <<arg, do_prune, config, flat_items, remote, sub_issues, calls,
                   kinds_left, all_issues, run, faults>>
    /\ UNCHANGED <<rt_vars, cl_vars>>

\* one iteration of "for item in items_for_kind" that stays on the item when
\* the tracker answered its call with an error: the call is retried
SyncItem_retry ==
    /\ pc = "items" /\ idx <= Len(items_for_kind(Head(kinds_left)))
    /\ LET kind == Head(kinds_left)
           item == items_for_kind(kind)[idx]
       IN  IF ~HasKey(existing_map, item.id)
           THEN create_item(item, kind_label(kind))
           ELSE update_item(Get(existing_map, item.id), item, kind_label(kind))
    /\ idx' = IF faults' # faults THEN idx ELSE idx + 1
    /\ UNCHANGED <<arg, do_prune, config, flat_items, sub_issues, pc,
                   kinds_left, existing_map, all_issues, run>>
    /\ UNCHANGED <<rt_vars, cl_vars>>

\* one iteration of "for item in items_for_kind"
SyncItem ==
    /\ pc = "items" /\ idx <= Len(items_for_kind(Head(kinds_left)))
    /\ LET kind == Head(kinds_left)
           item == items_for_kind(kind)[idx]
       IN  IF ~HasKey(existing_map, item.id)
           THEN create_item(item, kind_label(kind))
           ELSE update_item(Get(existing_map, item.id), item, kind_label(kind))
    /\ idx' = idx + 1
    /\ UNCHANGED <<arg, do_prune, config, flat_items, sub_issues, pc,
                   kinds_left, existing_map, all_issues, run>>
    /\ UNCHANGED <<rt_vars, cl_vars>>

\* the end of the loop over the items: "if do_prune", or the end of sync_kind
ItemsDone ==
    /\ pc = "items" /\ idx > Len(items_for_kind(Head(kinds_left)))
    /\ IF do_prune
       THEN pc' = "prune" /\ idx' = 1 /\ UNCHANGED kinds_left
       ELSE pc' = "sync_kind" /\ idx' = 0 /\ kinds_left' = Tail(kinds_left)
    /\ UNCHANGED <<arg, do_prune, config, flat_items, remote, sub_issues, calls, log,
                   existing_map, all_issues, run, faults>>
    /\ UNCHANGED <<rt_vars, cl_vars>>

\* valid_ids of prune_items
valid_ids(kind) == {flat_items[i].id : i \in {j \in 1..Len(flat_items) : flat_items[j].kind = kind}}

\* "if issue_id in valid_ids" with the test inverted
in_valid_ids_inverted(issue_id, kind) == issue_id \notin valid_ids(kind)

\* "if issue_id in valid_ids: continue"
in_valid_ids(issue_id, kind) == issue_id \in valid_ids(kind)

\* one iteration of "for issue_id, issue in existing_map.items()" of prune_items
PruneItem ==
    /\ pc = "prune" /\ idx <= Len(existing_map)
    /\ LET kind == Head(kinds_left)
           issue_id == existing_map[idx].key
           issue == existing_map[idx].value
       IN  IF in_valid_ids(issue_id, kind)
           THEN UNCHANGED <<calls, log, remote, faults>>
           ELSE \E status \in Statuses(200) :
                   /\ calls' = Append(calls, PatchIssue(issue.number, [state |-> "closed"]))
                   /\ faults' = Answered(status)
                   /\ IF status = 200
                      THEN /\ remote' = Closed(issue.number)
                           /\ log' = Append(log, [tag |-> "PRUNE", kind |-> kind,
                                                  id |-> issue_id, number |-> issue.number])
                      ELSE /\ remote' = remote
                           /\ log' = log \o << [tag |-> "PRUNE", kind |-> kind,
                                                id |-> issue_id, number |-> issue.number],
                                               [tag |-> "PRUNE-FAILED", id |-> issue_id,
                                                status |-> status] >>
    /\ idx' = idx + 1
    /\ UNCHANGED <<arg, do_prune, config, flat_items, sub_issues, pc,
                   kinds_left, existing_map, all_issues, run>>
    /\ UNCHANGED <<rt_vars, cl_vars>>

\* the end of prune_items and of sync_kind
PruneDone ==
    /\ pc = "prune" /\ idx > Len(existing_map)
    /\ pc' = "sync_kind" /\ idx' = 0 /\ kinds_left' = Tail(kinds_left)
    /\ UNCHANGED <<arg, do_prune, config, flat_items, remote, sub_issues, calls, log,
                   existing_map, all_issues, run, faults>>
    /\ UNCHANGED <<rt_vars, cl_vars>>

\* after the last sync_kind of a single-kind run: main() returns
KindSynced ==
    /\ pc = "sync_kind" /\ kinds_left = <<>> /\ arg # "all"
    /\ pc' = "done"
    /\ UNCHANGED <<arg, do_prune, config, flat_items, remote, sub_issues, calls, log,
                   kinds_left, existing_map, idx, all_issues, run, faults>>
    /\ UNCHANGED <<rt_vars, cl_vars>>

\* the head of sync_sub_issue_links called after the kinds of a run of any
\* scope: the call moved out of the "if arg == 'all'" branch of main()
LinksList_any_scope ==
    /\ pc = "sync_kind" /\ kinds_left = <<>>
    /\ \E status \in {200, 500} :
        IF status = 200
        THEN /\ all_issues' = get_all_existing_items
             /\ idx' = 1
             /\ pc' = "links"
        ELSE /\ pc' = "exit"
             /\ UNCHANGED <<all_issues, idx>>
    /\ log' = Append(log, [tag |-> "SYNC", kind |-> "sub-issue relationships"])
    /\ UNCHANGED <<arg, do_prune, config, flat_items, remote, sub_issues, calls,
                   kinds_left, existing_map, run, faults>>
    /\ UNCHANGED <<rt_vars, cl_vars>>

\* after the four kinds of an "all" run: the head of sync_sub_issue_links
\* lists the all-kinds directory, or the listing fails and the script exits
LinksList ==
    /\ pc = "sync_kind" /\ kinds_left = <<>> /\ arg = "all"
    /\ \E status \in {200, 500} :
        IF status = 200
        THEN /\ all_issues' = get_all_existing_items
             /\ idx' = 1
             /\ pc' = "links"
        ELSE /\ pc' = "exit"
             /\ UNCHANGED <<all_issues, idx>>
    /\ log' = Append(log, [tag |-> "SYNC", kind |-> "sub-issue relationships"])
    /\ UNCHANGED <<arg, do_prune, config, flat_items, remote, sub_issues, calls,
                   kinds_left, existing_map, run, faults>>
    /\ UNCHANGED <<rt_vars, cl_vars>>

\* parent_key of sync_sub_issue_links taking the epic for the parent at every level
parent_key_epic(item) ==
    IF item.kind # "epic" /\ ~Falsy(item.epic_id) THEN item.epic_id ELSE None

\* parent_key of sync_sub_issue_links
parent_key(item) ==
    IF item.kind = "story" /\ ~Falsy(item.epic_id) THEN item.epic_id
    ELSE IF item.kind = "task" /\ ~Falsy(item.story_id) THEN item.story_id
    ELSE IF item.kind = "subtask" /\ ~Falsy(item.task_id) THEN item.task_id
    ELSE None

add_sub_issue(parent_issue_number, child_issue_id) ==
    \E status \in Statuses(IF <<parent_issue_number, child_issue_id>> \in sub_issues
                           THEN 422 ELSE 201) :
        /\ calls' = Append(calls, PostSubIssue(parent_issue_number,
                                               [sub_issue_id |-> child_issue_id]))
        /\ faults' = Answered(status)
        /\ sub_issues' = IF status = 201
                         THEN sub_issues \cup {<<parent_issue_number, child_issue_id>>}
                         ELSE sub_issues
        /\ log' = Append(log,
                    [tag |-> CASE status = 201 -> "LINK"
                               [] status = 422 -> "LINK-SKIP"
                               [] OTHER -> "LINK-FAILED",
                     parent |-> parent_issue_number, child |-> child_issue_id])

\* one iteration of "for item in flat_items" of sync_sub_issue_links
LinkItem ==
    /\ pc = "links" /\ idx <= Len(flat_items)
    /\ LET item == flat_items[idx]
       IN  IF ~HasKey(all_issues, item.id) \/ Falsy(parent_key(item))
           THEN UNCHANGED <<calls, log, sub_issues, faults>>
           ELSE IF ~HasKey(all_issues, parent_key(item))
           THEN /\ log' = Append(log, [tag |-> "LINK-WARN", id |-> item.id,
                                       parent |-> parent_key(item)])
                /\ UNCHANGED <<calls, sub_issues, faults>>
           ELSE add_sub_issue(Get(all_issues, parent_key(item)).number,
                              Get(all_issues, item.id).id)
    /\ idx' = idx + 1
    /\ UNCHANGED <<arg, do_prune, config, flat_items, remote, pc,
                   kinds_left, existing_map, all_issues, run>>
    /\ UNCHANGED <<rt_vars, cl_vars>>

\* the end of sync_sub_issue_links and of main()
LinksDone ==
    /\ pc = "links" /\ idx > Len(flat_items)
    /\ pc' = "done"
    /\ UNCHANGED <<arg, do_prune, config, flat_items, remote, sub_issues, calls, log,
                   kinds_left, existing_map, idx, all_issues, run, faults>>
    /\ UNCHANGED <<rt_vars, cl_vars>>

\* the script is invoked again, with the same arguments and configuration,
\* against the tracker as the previous run left it
Rerun ==
    /\ pc = "done" /\ run = 1
    /\ run' = run + 1
    /\ pc' = "main"
    /\ flat_items' = <<>> /\ calls' = <<>> /\ log' = <<>> /\ kinds_left' = <<>>
    /\ existing_map' = <<>> /\ idx' = 0 /\ all_issues' = <<>>
    /\ UNCHANGED <<arg, do_prune, config, remote, sub_issues, faults>>
    /\ UNCHANGED <<rt_vars, cl_vars>>

-----------------------------------------------------------------------------
(* Configurations and trackers of the runs *)

\* nodes of the YAML document; a key that is left out reads as None
YamlSub(id, phase, priority, title) ==
    [id |-> id, phase |-> phase, priority |-> priority, title |-> title,
     description |-> None]
YamlTask(id, phase, priority, title, subtasks) ==
    [id |-> id, phase |-> phase, priority |-> priority, title |-> title,
     description |-> None, subtasks |-> subtasks]
YamlStory(id, phase, priority, title, tasks) ==
    [id |-> id, phase |-> phase, priority |-> priority, title |-> title,
     description |-> None, tasks |-> tasks]
YamlEpic(id, phase, priority, title, stories) ==
    [id |-> id, phase |-> phase, priority |-> priority, title |-> title,
     description |-> None, stories |-> stories]

Ingestion == <<"I", "n">>
Old == <<"O", "l", "d">>
high == <<"h", "i", "g", "h">>

\* epic PALI-E1 (phase "P1", priority "P0", title "Ingestion") with a chain of
\* depth - 1 descendants that leave phase and priority out
ChainConfig(depth, epic_priority, story_id) ==
    LET subs == IF depth >= 4
                THEN << YamlSub(Id_ST("1", "2", "3", "4"), None, None, <<"U">>) >> ELSE <<>>
        tasks == IF depth >= 3
                 THEN << YamlTask(Id_T("1", "2", "3"), None, None, <<"T">>, subs) >> ELSE <<>>
        stories == IF depth >= 2
                   THEN << YamlStory(story_id, None, None, <<"S">>, tasks) >> ELSE <<>>
    IN  [epics |-> << YamlEpic(Id_E("1"), P1, epic_priority, Ingestion, stories) >>]

\* a story identifier that is no story identifier
BadStoryId == Id_E("1") \o <<"-", "X", "2">>

RunConfigs ==
    {ChainConfig(d, P0, Id_S("1", "2")) : d \in {1, 2, 4}}
    \cup {ChainConfig(1, high, Id_S("1", "2")),
          ChainConfig(2, P0, BadStoryId)}

\* an issue title "[<id>] <text>"
Bracketed(id, text) == <<"[">> \o id \o <<"]", " ">> \o text

\* the issues the tracker may hold before the first run of a configuration:
\* the issue an earlier run made for the first epic, with its labels, its
\* title (now of the old form) or its body (now null) changed since; an epic
\* and a story with stale content, which may be in no configuration; an issue
\* that is no work item; a pull request
RemoteTemplates(data) ==
    LET epic == load_flat_items(data)[1]
        made == create_payload(epic, kind_label("epic"))
    IN  { [title |-> made.title, body |-> made.body, labels |-> <<bug, P2>>,
           pull_request |-> FALSE],
          [title |-> epic.id \o <<" ">> \o Old, body |-> made.body, labels |-> made.labels,
           pull_request |-> FALSE],
          [title |-> made.title, body |-> None, labels |-> made.labels,
           pull_request |-> FALSE],
          [title |-> Bracketed(Id_E("9"), Old), body |-> None, labels |-> <<>>,
           pull_request |-> FALSE],
          [title |-> Bracketed(Id_S("1", "2"), Old), body |-> None, labels |-> <<bug, P2>>,
           pull_request |-> FALSE],
          [title |-> <<"n", "o", "t", "e">>, body |-> None, labels |-> <<>>,
           pull_request |-> FALSE],
          [title |-> made.title, body |-> None, labels |-> <<>>, pull_request |-> TRUE] }

\* most issues of the tracker before the first run
MaxRemote == 2

\* the tracker's listing of the issues made from templates: newest first
InitialRemote(t) ==
    [i \in 1..Len(t) |->
        [number |-> Len(t) - i + 1, id |-> IssueId(Len(t) - i + 1),
         title |-> t[i].title, body |-> t[i].body, labels |-> t[i].labels,
         state |-> "open", pull_request |-> t[i].pull_request]]

Init ==
    /\ arg \in {"epic", "story", "task", "subtask", "all", "epics"}
    /\ do_prune \in BOOLEAN
    /\ config \in RunConfigs
    /\ remote \in {InitialRemote(t) : t \in SeqsUpTo(RemoteTemplates(config), MaxRemote)}
    /\ sub_issues = {}
    /\ flat_items = <<>> /\ calls = <<>> /\ log = <<>> /\ kinds_left = <<>>
    /\ existing_map = <<>> /\ idx = 0 /\ all_issues = <<>>
    /\ pc = "main" /\ run = 1 /\ faults = 0
    /\ RtIdle /\ ClIdle

Next ==
    \/ Main \/ Usage
    \/ SyncKindList \/ SyncItem \/ ItemsDone
    \/ PruneItem \/ PruneDone
    \/ KindSynced \/ LinksList \/ LinkItem \/ LinksDone
    \/ Rerun

Spec == Init /\ [][Next]_vars

-----------------------------------------------------------------------------
(* Loading a configuration, and the title round trip of one of its items *)

\* values of phase and priority a node of each level may give
PhaseAt(level) == <<"P", "h", level>>
PriorityAt(level) ==
    CASE level = "1" -> P0 [] level = "2" -> P1 [] level = "3" -> P2 [] OTHER -> high

\* what a story, task or subtask may say about phase and priority: nothing,
\* one of the two (padded with blanks), an empty or a blank string
FieldOptions(level) ==
    { [phase |-> None, priority |-> None],
      [phase |-> <<" ">> \o PhaseAt(level) \o <<" ">>, priority |-> None],
      [phase |-> None, priority |-> PriorityAt(level)],
      [phase |-> <<>>, priority |-> <<" ">> \o PriorityAt(level)],
      [phase |-> <<" ">>, priority |-> <<>>] }

LoadEpicIds == {Id_E("1"), <<" ">> \o Id_E("1") \o <<" ">>, Id_E("1") \o <<"]", "x">>}

LoadStoryIds == {Id_S("1", "2"), <<"[", "S", "]">>}

LoadSubs(depth) ==
    IF depth < 4 THEN {<<>>}
    ELSE { << YamlSub(Id_ST("1", "2", "3", "4"), f.phase, f.priority, <<"U">>) >> :
             f \in FieldOptions("4") }

LoadTasks(depth) ==
    IF depth < 3 THEN {<<>>}
    ELSE { << YamlTask(Id_T("1", "2", "3"), f.phase, f.priority, <<"T">>, subs) >> :
             f \in FieldOptions("3"), subs \in LoadSubs(depth) }

LoadStories(depth) ==
    IF depth < 2 THEN {<<>>}
    ELSE { << YamlStory(id, f.phase, f.priority, <<"S">>, tasks) >> :
             id \in LoadStoryIds, f \in FieldOptions("2"), tasks \in LoadTasks(depth) }

\* two stories of one epic, each with a task that leaves both fields out
LoadSiblings ==
    { << YamlStory(Id_S("1", "1"), f.phase, f.priority, <<"S">>,
                   << YamlTask(Id_T("1", "1", "1"), None, None, <<"T">>, <<>>) >>),
         YamlStory(Id_S("1", "2"), g.phase, g.priority, <<"S">>,
                   << YamlTask(Id_T("1", "2", "1"), None, None, <<"T">>, <<>>) >>) >> :
        f \in FieldOptions("2"), g \in FieldOptions("2") }

LoadConfigs ==
    { [epics |-> << YamlEpic(id, e.phase, e.priority, title, stories) >>] :
        id \in LoadEpicIds,
        e \in { [phase |-> PhaseAt("1"), priority |-> PriorityAt("1")],
                [phase |-> <<>>, priority |-> <<" ">> \o high] },
        title \in {Ingestion, <<>>},
        stories \in UNION {LoadStories(d) : d \in 1..4} }
    \cup { [epics |-> << YamlEpic(Id_E("1"), PhaseAt("1"), PriorityAt("1"), Ingestion, stories) >>] :
             stories \in LoadSiblings }

InitLoad ==
    /\ arg = "all" /\ do_prune = FALSE
    /\ config \in LoadConfigs
    /\ remote = <<>> /\ sub_issues = {}
    /\ flat_items = <<>> /\ calls = <<>> /\ log = <<>> /\ kinds_left = <<>>
    /\ existing_map = <<>> /\ idx = 0 /\ all_issues = <<>>
    /\ pc = "main" /\ run = 1 /\ faults = 0
    /\ RtIdle /\ ClIdle

\* issue_title = desired_title(item), for one of the loaded items
RenderTitle ==
    /\ pc = "sync_kind" /\ rt_pc = "idle"
    /\ \E i \in 1..Len(flat_items) :
        /\ rt_item' = i
        /\ rt_title' = desired_title(flat_items[i])
    /\ rt_pc' = "rendered"
    /\ UNCHANGED <<rt_id, run_vars, cl_vars>>

\* item_id = extract_id_from_title(title), for the title of the created issue
ExtractId ==
    /\ rt_pc = "rendered"
    /\ rt_id' = extract_id_from_title(rt_title)
    /\ rt_pc' = "extracted"
    /\ UNCHANGED <<rt_item, rt_title, run_vars, cl_vars>>

NextLoad == Main \/ RenderTitle \/ ExtractId

SpecLoad == InitLoad /\ [][NextLoad]_vars

\* C1: the identifier extracted from the rendered title of a loaded item is
\* the item's identifier.
C1_TitleRoundTrip ==
    rt_pc = "extracted" => rt_id = flat_items[rt_item].id

\* the nodes of the document in the order of the flat items, each with what
\* it says about phase and priority and with the position of its parent
ChildrenOf(node, level) ==
    CASE level = 1 -> node.stories
      [] level = 2 -> node.tasks
      [] level = 3 -> node.subtasks
      [] OTHER -> <<>>

RECURSIVE RawNodes(_, _, _, _)
RawNodes(nodes, level, parent, base) ==
    IF nodes = <<>> THEN <<>>
    ELSE LET below == RawNodes(ChildrenOf(Head(nodes), level), level + 1, base + 1, base + 1)
         IN  << [phase |-> Head(nodes).phase, priority |-> Head(nodes).priority,
                 parent |-> parent] >>
             \o below
             \o RawNodes(Tail(nodes), level, parent, base + 1 + Len(below))

\* C9: an item whose node leaves phase (priority) out, or gives an empty one,
\* has the phase (priority) of the item of its parent node, which is the
\* parent's resolved value; an item whose node gives one has that value,
\* stripped of surrounding blanks.
C9_Inheritance ==
    pc = "sync_kind" =>
        LET raw == RawNodes(config.epics, 1, 0, 0)
        IN  /\ Len(flat_items) = Len(raw)
            /\ \A i \in 1..Len(raw) :
                 raw[i].parent # 0 =>
                    /\ flat_items[i].phase =
                          IF Falsy(raw[i].phase) THEN flat_items[raw[i].parent].phase
                          ELSE strip(raw[i].phase)
                    /\ flat_items[i].priority =
                          IF Falsy(raw[i].priority) THEN flat_items[raw[i].parent].priority
                          ELSE strip(raw[i].priority)

\* a subtask and its task leave both out; the story gives a phase and the
\* epic the priority: the subtask has the story's phase and the epic's priority
C9_Witness ==
    /\ pc = "sync_kind" /\ Len(flat_items) = 4
    /\ config.epics[1].stories[1].phase = <<" ">> \o PhaseAt("2") \o <<" ">>
    /\ config.epics[1].stories[1].priority = None
    /\ config.epics[1].stories[1].tasks[1].phase = None
    /\ config.epics[1].stories[1].tasks[1].priority = None
    /\ config.epics[1].stories[1].tasks[1].subtasks[1].phase = None
    /\ config.epics[1].stories[1].tasks[1].subtasks[1].priority = None
    /\ config.epics[1].priority = P0
    /\ flat_items[4].kind = "subtask"
    /\ flat_items[4].phase = PhaseAt("2")
    /\ flat_items[4].priority = P0

-----------------------------------------------------------------------------
(* Properties of the runs *)

IsCreate(c) == c.method = "POST" /\ ~c.sub_issues
IsLink(c) == c.method = "POST" /\ c.sub_issues
IsUpdate(c) == c.method = "PATCH" /\ "title" \in DOMAIN c.json
IsClose(c) == c.method = "PATCH" /\ "state" \in DOMAIN c.json

\* f applied to the elements of a sequence
Map(f(_), l) == [k \in 1..Len(l) |-> f(l[k])]

\* C2: no issue is created for a configured item whose identifier does not
\* match the pattern of its kind.
C2_BadIdNotSynced ==
    \A i \in 1..Len(flat_items) :
        ~id_regex(flat_items[i].kind, flat_items[i].id) =>
            ~\E k \in 1..Len(calls) :
                IsCreate(calls[k]) /\ calls[k].json.title = desired_title(flat_items[i])

\* the items sync_sub_issue_links has gone through
Linked ==
    IF arg = "all" /\ pc \in {"links", "done"} THEN SubSeq(flat_items, 1, idx - 1) ELSE <<>>

\* the identifier of the parent of a story, task or subtask
ParentId(item) ==
    CASE item.kind = "story"   -> item.epic_id
      [] item.kind = "task"    -> item.story_id
      [] item.kind = "subtask" -> item.task_id
      [] OTHER -> None

ChildMissing(item) == ParentId(item) # None /\ ~HasKey(all_issues, item.id)
ParentMissing(item) == ParentId(item) # None /\ ~HasKey(all_issues, ParentId(item))
BothPresent(item) ==
    ParentId(item) # None /\ HasKey(all_issues, item.id) /\ HasKey(all_issues, ParentId(item))

LinkCalls == SelectSeq(calls, IsLink)
LinkWarnings == SelectSeq(log, LAMBDA line : line.tag = "LINK-WARN")

\* C3 as claimed: for every item gone through whose own or whose parent's
\* issue is missing from the all-kinds directory a warning is in the log, and
\* the add-sub-issue calls are those of the items with both issues present.
C3_WarnsWhenEitherMissing ==
    /\ \A i \in 1..Len(Linked) :
          ChildMissing(Linked[i]) \/ ParentMissing(Linked[i]) =>
             \E k \in 1..Len(LinkWarnings) : LinkWarnings[k].id = Linked[i].id
    /\ Len(LinkCalls) = Len(SelectSeq(Linked, BothPresent))

LinkCallOf(item) ==
    PostSubIssue(Get(all_issues, ParentId(item)).number,
                 [sub_issue_id |-> Get(all_issues, item.id).id])

LinkWarningOf(item) == [tag |-> "LINK-WARN", id |-> item.id, parent |-> ParentId(item)]

\* C3, amended: the warnings in the log are those of the items whose own
\* issue is present and whose parent's issue is missing (an item whose own
\* issue is missing is passed over without a warning), and the add-sub-issue
\* calls are those of the items with both issues present, in the order of the
\* items: parent number and child id as the directory gives them.
C3_LinkSkips ==
    /\ LinkWarnings
         = Map(LinkWarningOf,
               SelectSeq(Linked, LAMBDA it : ~ChildMissing(it) /\ ParentMissing(it)))
    /\ LinkCalls = Map(LinkCallOf, SelectSeq(Linked, BothPresent))

\* the links of a run are done; one item was passed over for its own missing
\* issue, another was warned about for its parent's, a third was linked
C3_Witness ==
    /\ pc = "done" /\ arg = "all"
    /\ \E i \in 1..Len(Linked) : ChildMissing(Linked[i])
    /\ \E i \in 1..Len(Linked) : ~ChildMissing(Linked[i]) /\ ParentMissing(Linked[i])
    /\ \E i \in 1..Len(Linked) : BothPresent(Linked[i])
    /\ Len(LinkWarnings) = 1 /\ Len(LinkCalls) = 1

\* the item of the current iteration of the loop of sync_kind
CurrentItem == items_for_kind(Head(kinds_left))[idx]

\* the current iteration of the loop of sync_kind is taken
ItemStep == pc = "items" /\ pc' = "items" /\ idx' = idx + 1

\* C4: an iteration for an item whose issue is in the kind-scoped directory
\* issues no call when the issue's title, body and label set equal the desired
\* title, the desired body and the set of the computed labels, and otherwise
\* issues exactly one call, a PATCH of that issue with the three fields.
C4_UpdateOnlyOnChange ==
    [][ (ItemStep /\ HasKey(existing_map, CurrentItem.id)) =>
          LET item == CurrentItem
              issue == Get(existing_map, item.id)
              label == kind_label(item.kind)
              new_labels == compute_labels(issue.labels, label, item.priority, item.id)
          IN  IF /\ issue.title = desired_title(item)
                 /\ issue.body = desired_body(item, CONFIG_PATH)
                 /\ SetOf(issue.labels) = SetOf(new_labels)
              THEN calls' = calls
              ELSE calls' = Append(calls,
                       [method |-> "PATCH", issue |-> issue.number, sub_issues |-> FALSE,
                        json |-> [title |-> desired_title(item),
                                  body |-> desired_body(item, CONFIG_PATH),
                                  labels |-> new_labels]]) ]_vars

\* an item was skipped as unchanged after an update of another item's issue
C4_Witness ==
    /\ pc = "items" /\ idx = 2
    /\ log[Len(log)].tag = "SKIP"
    /\ \E k \in 1..Len(calls) : IsUpdate(calls[k])
    /\ LET item == items_for_kind(Head(kinds_left))[1]
           issue == Get(existing_map, item.id)
       IN  /\ issue.title = desired_title(item)
           /\ issue.body = desired_body(item, CONFIG_PATH)
           /\ SetOf(issue.labels) # {} 

\* the close calls for the issue with a number
CloseCalls(number) ==
    Cardinality({k \in 1..Len(calls) : IsClose(calls[k]) /\ calls[k].issue = number})

\* the identifiers configured for a kind
Configured(kind) ==
    {flat_items[i].id : i \in {j \in 1..Len(flat_items) : flat_items[j].kind = kind}}

\* prune_items has gone through the kind-scoped directory
Pruned == pc = "prune" /\ idx > Len(existing_map)

\* C5: when prune_items has gone through the kind-scoped directory, one close
\* call, with payload state = closed, was issued for the issue of each of its
\* identifiers that is not configured for the kind, and none for the issue of
\* an identifier that is.
C5_PruneOrphans ==
    Pruned =>
        \A j \in 1..Len(existing_map) :
            /\ CloseCalls(existing_map[j].value.number)
                  = IF existing_map[j].key \in Configured(Head(kinds_left)) THEN 0 ELSE 1
            /\ \A k \in 1..Len(calls) :
                  IsClose(calls[k]) /\ calls[k].issue = existing_map[j].value.number
                      => calls[k].json = [state |-> "closed"]

\* the directory held a configured identifier and one that is not
C5_Witness ==
    /\ Pruned
    /\ \E j \in 1..Len(existing_map) :
          /\ existing_map[j].key \in Configured(Head(kinds_left))
          /\ CloseCalls(existing_map[j].value.number) = 0
    /\ \E j \in 1..Len(existing_map) :
          /\ existing_map[j].key \notin Configured(Head(kinds_left))
          /\ CloseCalls(existing_map[j].value.number) = 1

\* C10: an iteration for an item whose identifier is not in the kind-scoped
\* directory issues exactly one call, the create call, with the title
\* "[<id>] <title>" and, as a set, the labels computed from no labels: the
\* kind's label, the segment labels of the identifier, and the priority when
\* it is one of PRIORITY_LABELS.
C10_CreateWhenAbsent ==
    [][ (ItemStep /\ ~HasKey(existing_map, CurrentItem.id)) =>
          LET item == CurrentItem
          IN  /\ Len(calls') = Len(calls) + 1
              /\ SubSeq(calls', 1, Len(calls)) = calls
              /\ IsCreate(calls'[Len(calls')])
              /\ calls'[Len(calls')].issue = 0
              /\ calls'[Len(calls')].json.title = <<"[">> \o item.id \o <<"]", " ">> \o item.title
              /\ SetOf(calls'[Len(calls')].json.labels)
                    = {kind_label(item.kind)}
                      \cup SetOf(extract_id_segment_labels(item.id))
                      \cup (IF item.priority \in PRIORITY_LABELS THEN {item.priority} ELSE {}) ]_vars

\* the spec's scenario: epic PALI-E1, priority P0, title Ingestion, no issue
C10_Witness ==
    /\ pc = "items" /\ Head(kinds_left) = "epic" /\ idx = 2
    /\ ~HasKey(existing_map, Id_E("1"))
    /\ Len(calls) = 1
    /\ IsCreate(calls[1])
    /\ calls[1].json.title = Bracketed(Id_E("1"), Ingestion)
    /\ SetOf(calls[1].json.labels) = {kind_label("epic"), E1, P0}
    /\ log[Len(log)] = [tag |-> "CREATE", id |-> Id_E("1"), number |-> Len(remote)]

\* the "=== Syncing ... ===" lines of the run, in the order they were printed
Passes == Map(LAMBDA line : line.kind, SelectSeq(log, LAMBDA line : line.tag = "SYNC"))

relationships == "sub-issue relationships"

IsPrefix(s, t) == Len(s) <= Len(t) /\ s = SubSeq(t, 1, Len(s))

\* the lines and calls of the create/update and prune passes
PassTags == {"EXISTING", "WARN", "CREATE", "CREATE-FAILED", "UPDATE", "UPDATE-FAILED",
             "SKIP", "PRUNE", "PRUNE-FAILED"}

\* C11: a run of a single kind issues no add-sub-issue call; a run of scope
\* "all" goes through the passes epic, story, task, subtask in that order, and
\* when it has issued an add-sub-issue call the four passes are over: the four
\* were started in that order before the links, no kind is left, every line of
\* a create/update or prune pass is before the line of the links, and every
\* create, update or close call is before every add-sub-issue call.
C11_LinksAfterReconciliation ==
    /\ arg # "all" => LinkCalls = <<>>
    /\ arg = "all" => IsPrefix(Passes, Kinds \o <<relationships>>)
    /\ LinkCalls # <<>> =>
          /\ Passes = <<"epic", "story", "task", "subtask", relationships>>
          /\ kinds_left = <<>> /\ pc \in {"links", "done"}
          /\ \A i, j \in 1..Len(log) :
                log[i].tag \in PassTags /\ log[j] = [tag |-> "SYNC", kind |-> relationships]
                    => i < j
          /\ \A i, j \in 1..Len(calls) : ~IsLink(calls[i]) /\ IsLink(calls[j]) => i < j

\* a run of scope "all" with pruning that created an issue, updated one and
\* closed one has issued an add-sub-issue call
C11_Witness ==
    /\ arg = "all" /\ do_prune
    /\ \E k \in 1..Len(calls) : IsCreate(calls[k])
    /\ \E k \in 1..Len(calls) : IsUpdate(calls[k])
    /\ \E k \in 1..Len(calls) : IsClose(calls[k])
    /\ IsLink(calls[Len(calls)])

\* the items of the kinds of the run's scope, in the order of the passes
ScopeItems ==
    IF arg = "all"
    THEN items_for_kind("epic") \o items_for_kind("story")
         \o items_for_kind("task") \o items_for_kind("subtask")
    ELSE items_for_kind(arg)

\* the lines the loop of sync_kind has printed, one for an item gone through
ItemLines ==
    SelectSeq(log, LAMBDA line : line.tag \in {"CREATE", "CREATE-FAILED", "UPDATE",
                                               "UPDATE-FAILED", "SKIP"})

CountCalls(Is(_)) == Cardinality({k \in 1..Len(calls) : Is(calls[k])})
CountLines(tags) == Cardinality({k \in 1..Len(log) : log[k].tag \in tags})

\* the tracker answers a create, update, close or link call with an error
FailedCall == faults' = faults + 1

\* C12: a step in which the tracker answers a create, update, close or link
\* call with an error issues that one call, leaves the run in the same loop and
\* moves it to the next item, the tracker unchanged; so the items gone through
\* are, one line each and in order, the items of the scope from the first on
\* (all of them when the passes are over), each with one call unless it was
\* skipped as unchanged, each close and each link attempted with one call.
C12_FailureIsolated ==
    /\ [][ FailedCall =>
             /\ pc \in {"items", "prune", "links"} /\ pc' = pc
             /\ idx' = idx + 1
             /\ Len(calls') = Len(calls) + 1 /\ SubSeq(calls', 1, Len(calls)) = calls
             /\ UNCHANGED <<remote, sub_issues, flat_items, kinds_left, existing_map,
                            all_issues>> ]_vars
    /\ [](/\ IsPrefix(Map(LAMBDA line : line.id, ItemLines),
                      Map(LAMBDA it : it.id, ScopeItems))
          /\ pc \in {"links", "done"} => Len(ItemLines) = Len(ScopeItems)
          /\ CountCalls(IsCreate) = CountLines({"CREATE", "CREATE-FAILED"})
          /\ CountCalls(IsUpdate) = CountLines({"UPDATE", "UPDATE-FAILED"})
          /\ CountCalls(IsClose) = CountLines({"PRUNE"})
          /\ CountCalls(IsLink) = CountLines({"LINK", "LINK-SKIP", "LINK-FAILED"}))

\* a run is over in which the create call of one item failed and the issue of
\* a later item was created
C12_Witness ==
    /\ pc = "done" /\ faults = 1
    /\ \E i, j \in 1..Len(log) :
          /\ i < j
          /\ log[i].tag = "CREATE-FAILED"
          /\ log[j].tag = "CREATE"
    /\ Len(ItemLines) = Len(ScopeItems)

\* the error responses of the tracker in the current run
FailedInRun == CountLines({"CREATE-FAILED", "UPDATE-FAILED", "PRUNE-FAILED", "LINK-FAILED"})

\* the run is the one that follows a complete run of scope "all" without
\* pruning in which the tracker answered no call with an error
SecondRun == run = 2 /\ arg = "all" /\ ~do_prune /\ faults = FailedInRun

\* C13: the run that follows a complete run of scope "all" without pruning in
\* which every call succeeded, with the same configuration and the tracker as
\* that run left it, issues no create call and no update call.
C13_Convergence ==
    SecondRun => CountCalls(IsCreate) = 0 /\ CountCalls(IsUpdate) = 0

\* every configured identifier matches the pattern of its kind
ValidIds == \A i \in 1..Len(flat_items) : id_regex(flat_items[i].kind, flat_items[i].id)

\* C13 for the configurations whose identifiers match the patterns of their
\* kinds: the second run issues no create call and no update call, and every
\* item it has gone through was skipped as unchanged.
C13_ConvergenceValidIds ==
    SecondRun /\ ValidIds =>
        /\ CountCalls(IsCreate) = 0 /\ CountCalls(IsUpdate) = 0
        /\ \A k \in 1..Len(ItemLines) : ItemLines[k].tag = "SKIP"

\* the second run is over, after a first run that created and updated issues
C13_SecondRunDone ==
    /\ SecondRun /\ ValidIds /\ pc = "done"
    /\ Len(ItemLines) = 4
    /\ Len(remote) > 4

=============================================================================
